---------------------------- MODULE Spec2Model ----------------------------
(***************************************************************************)
(* The STK500 decoder of ArduinoISP.cpp.  The file holds two revisions of  *)
(* the sketch: lines 1-491 (rev = 1: bool _error, avrisp() with a static   *)
(* local address, writeFlash(address, length)) and lines 494-1070          *)
(* (rev = 2: uint8_t _error counter, global _address, writeFlashPages).    *)
(*                                                                         *)
(* The decoder blocks in getch(); one action of the model is the code that *)
(* runs from one getch() call to the next one, so pc names the getch()     *)
(* call the decoder is blocked in.  The host puts whole frames on the      *)
(* serial line; the target device answers the SPI transactions.            *)
(***************************************************************************)
EXTENDS Integers, Sequences, FiniteSets, TLC

\* ---- program constants (#define) ----
STK_OK == 16
STK_FAILED == 17
STK_UNKNOWN == 18
STK_INSYNC == 20
STK_NOSYNC == 21
CRC_EOP == 32
BUFF_LENGTH == 256
EECHUNK == 32
HARDWARE_VERSION == 2
FIRMWARE_MAJOR_VERSION == 1
FIRMWARE_MINOR_VERSION == 18

\* ---- bounds of the model ----
\* frames the host sends in a "basic" session
MaxBasicFrames == 2
\* short program-page / read-page lengths 0..MaxSmallLen are all tried
MaxSmallLen == 4
\* where a loop is followed turn by turn: the entries the logs `out' and
\* `spi' keep of it, and the turns one step takes at most once they are full
MaxLog == 4
Burst == 2048

\* The value of a byte read outside _buff (undefined behaviour): some byte
\* the model does not know; it is never equal to a byte the host sent.
Indeterminate == -1

VARIABLES
    rev,            \* which revision of the sketch runs: 1 or 2
    order,          \* rev 1: the order the build evaluates the two getch()
                    \* operands of "|" in ("lr" left first, "rl" right first)
    plan,           \* what kind of session the host runs
    _error,         \* rev 1: bool as 0/1; rev 2: uint8_t counter
    _programming,
    _address,       \* rev 1: static local address of avrisp(); rev 2: _address
    _param,
    _buff,          \* _buff[i] of the code is _buff[i+1] here
    pc,             \* the getch() call the decoder is blocked in
    loc,            \* locals and arguments live across getch() calls
    hw,             \* RESET pin and SPI peripheral
    inq,            \* bytes the host sent that getch() has not returned yet
    out,            \* bytes written to the host since the last frame was sent
    spi,            \* SPI transactions issued since the last frame was sent
    pins,           \* digitalWrite(RESET, ..) levels since the last frame was sent
    tgt,            \* the target device: flash page size, flash, page buffer
    stage,          \* frames the host has sent
    sent,           \* the last frame the host sent
    pre,            \* the session state when that frame was sent
    memo            \* what the host of a "page" session remembers of its frames

vars == <<rev, order, plan, _error, _programming, _address, _param, _buff,
          pc, loc, hw, inq, out, spi, pins, tgt, stage, sent, pre, memo>>

build == <<rev, order, plan>>
host == <<stage, sent, pre, memo>>

\* ---- integer helpers ----
U8(v) == v % 256
U16(v) == v % 65536
highByte(w) == (w \div 256) % 256
lowByte(w) == w % 256
makeWord(h, l) == h * 256 + l

RECURSIVE BitAnd(_, _)
BitAnd(a, b) ==
    IF a = 0 \/ b = 0 THEN 0
    ELSE (a % 2) * (b % 2) + 2 * BitAnd(a \div 2, b \div 2)

\* ~v on 16 bits
Not16(v) == 65535 - v

Last(s) == s[Len(s)]
Bytes == 0..255
PageSizes == {32, 64, 128, 256}
StatusBytes == {STK_OK, STK_FAILED, STK_UNKNOWN}

\* ---- opcodes of the switch in avrisp() ----
Opcodes == {48, 49, 65, 66, 69, 80, 85, 96, 97, 100, 116, 86, 81, 117, CRC_EOP}

\* ---- the transfer buffer ----
ZeroBuff == [i \in 1..BUFF_LENGTH |-> 0]

\* _buff[x] as the code reads it: outside the array it is undefined behaviour
BuffAt(b, x) == IF x < BUFF_LENGTH THEN b[x + 1] ELSE Indeterminate

\* ---- the target device ----
NoCells == [k \in {} |-> 0]

\* A perfect target: load-flash-byte fills the page buffer at the low bits
\* of the word address, commit copies the loaded bytes into the addressed
\* page and clears the page buffer, read-flash returns the stored byte (an
\* erased byte is 0xFF).
TargetAfter(t, a, b, c, d) ==
    LET pw == t.pagesize \div 2
        addr == b * 256 + c
        base == addr - (addr % pw)
    IN  CASE a = 64 -> [t EXCEPT !.pagebuf = (<<0, addr % pw>> :> d) @@ t.pagebuf]
          [] a = 72 -> [t EXCEPT !.pagebuf = (<<1, addr % pw>> :> d) @@ t.pagebuf]
          [] a = 76 ->
                [t EXCEPT !.flash =
                       [k \in {<<q[1], base + q[2]>> : q \in DOMAIN t.pagebuf}
                            |-> t.pagebuf[<<k[1], k[2] - base>>]] @@ t.flash,
                          !.pagebuf = NoCells]
          [] OTHER -> t

TargetReply(t, a, b, c, d) ==
    LET addr == b * 256 + c
        cell(hilo) == IF <<hilo, addr>> \in DOMAIN t.flash
                      THEN t.flash[<<hilo, addr>>] ELSE 255
    IN  CASE a = 32 -> cell(0)
          [] a = 40 -> cell(1)
          [] a = 160 -> 255
          [] OTHER -> 0

\* ---- serial output and SPI, threaded through a handler ----
\* io = [out, spi, tgt]: what a handler has written and transferred so far
Write(io, byte) == [io EXCEPT !.out = Append(@, byte)]
WriteAll(io, bs) == [io EXCEPT !.out = @ \o bs]

spiTransfer(io, a, b, c, d) ==
    [io EXCEPT !.spi = Append(@, <<a, b, c, d>>),
               !.tgt = TargetAfter(@, a, b, c, d)]

\* what spiTransfer returns, in the state io before the transfer
spiResult(io, a, b, c, d) == TargetReply(io.tgt, a, b, c, d)

\* the three-argument overload of rev 1
spiTransfer3(io, a, w, c) == spiTransfer(io, a, highByte(w), lowByte(w), c)
spiResult3(io, a, w, c) == spiResult(io, a, highByte(w), lowByte(w), c)

IO == [out |-> out, spi |-> spi, tgt |-> tgt]
SetIO(io) == out' = io.out /\ spi' = io.spi /\ tgt' = io.tgt

\* ---- the sticky error flag ----
\* rev 1: _error = true;   rev 2: _error++ on a uint8_t
ErrorSet(e) == IF rev = 1 THEN 1 ELSE U8(e + 1)

\* ---- locals ----
NoLoc == [cmd |-> 0, b1 |-> 0, length |-> 0, memtype |-> 0, n |-> 0, x |-> 0,
          cont |-> "", val |-> <<>>, result |-> 0, start |-> 0, remaining |-> 0,
          address |-> 0]

ZeroParam == [signature |-> 0, revision |-> 0, progtype |-> 0, parmode |-> 0,
              polling |-> 0, selftimed |-> 0, lock_bytes |-> 0, fuse_bytes |-> 0,
              flash_poll |-> 0, eeprom_poll |-> 0, flash_pagesize |-> 0,
              eeprom_size |-> 0, flash_size |-> <<0, 0, 0, 0>>]


\* ---- frames the host sends ----
\* op: the command byte; par: the parameter bytes; pay: a program-page
\* payload; term: the terminator, <<CRC_EOP>> in a well-formed frame
Fr(op, par, pay, term) == [op |-> op, par |-> par, pay |-> pay, term |-> term]
FrameBytes(f) == <<f.op>> \o f.par \o f.pay \o f.term
WellFormed(f) == f.term = <<CRC_EOP>>
NoFrame == Fr(0, <<>>, <<>>, <<>>)

BadTerm == <<0>>
Terms == {<<CRC_EOP>>, BadTerm}

\* the 20-byte device parameter block: bytes 12,13 page size, 14,15 EEPROM
\* size (big endian); the other bytes are small, so that the int
\* arithmetic of the flash_size sum does not overflow
ParamBlock(ps, ees) ==
    [i \in 1..20 |->
        CASE i = 13 -> highByte(ps)
          [] i = 14 -> lowByte(ps)
          [] i = 15 -> highByte(ees)
          [] i = 16 -> lowByte(ees)
          [] OTHER -> i]

\* payload byte i (from 0) of pattern pat.  Pattern 0 holds 1..16; pattern
\* 1 holds 128..143 but for its first byte, which is equal to CRC_EOP, and
\* pattern 2 but for byte 44, which is equal to CRC_EOP (the byte that
\* follows the first 300 - 256 bytes).  No other payload byte is an opcode
\* of avrisp().
PatByte(pat, i) ==
    IF pat = 0 THEN 1 + (i % 16)
    ELSE IF (pat = 1 /\ i = 0) \/ (pat = 2 /\ i = 44) THEN CRC_EOP
    ELSE 128 + (i % 16)
Payload(pat, L) == [i \in 1..L |-> PatByte(pat, i - 1)]

SetParamsFrame(ps, ees, t) == Fr(66, ParamBlock(ps, ees), <<>>, t)
SetAddrFrame(A, t) == Fr(85, <<lowByte(A), highByte(A)>>, <<>>, t)
ProgPageFrame(L, mt, pat, t) ==
    Fr(100, <<highByte(L), lowByte(L), mt>>, Payload(pat, L), t)
ReadPageFrame(L, mt, t) == Fr(116, <<highByte(L), lowByte(L), mt>>, <<>>, t)
EopFrame == Fr(CRC_EOP, <<>>, <<>>, <<>>)
UnknownFrame(t) == Fr(153, <<>>, <<>>, t)

\* the declared length and memory type of a page frame
FrameLen(f) == makeWord(f.par[1], f.par[2])
FrameMem(f) == f.par[3]

BasicFrames ==
    {Fr(op, <<>>, <<>>, t) : op \in {48, 49, 80, 81, 117}, t \in Terms}
    \cup {Fr(65, <<s>>, <<>>, t) : s \in {128, 129, 130, 147, 0}, t \in Terms}
    \cup {SetParamsFrame(64, 512, t) : t \in Terms}
    \cup {SetParamsFrame(48, 4, t) : t \in Terms}
    \cup {Fr(69, <<1, 2, 3, 4, 5>>, <<>>, t) : t \in Terms}
    \cup {SetAddrFrame(A, t) : A \in {5, 4660}, t \in Terms}
    \cup {Fr(96, <<1, 2>>, <<>>, t) : t \in Terms}
    \cup {Fr(97, <<1>>, <<>>, t) : t \in Terms}
    \cup {Fr(86, <<32, 0, 0, 0>>, <<>>, t) : t \in Terms}
    \cup {UnknownFrame(t) : t \in Terms}
    \cup {EopFrame}

\* a noisy line: framing failures without end
NoisyFrames ==
    {EopFrame, UnknownFrame(BadTerm), UnknownFrame(<<CRC_EOP>>),
     Fr(49, <<>>, <<>>, BadTerm), Fr(49, <<>>, <<>>, <<CRC_EOP>>),
     Fr(48, <<>>, <<>>, <<CRC_EOP>>)}

\* a "page" session: set-device-parameters, set-address A, program-page,
\* set-address A again, read-page of the length written
EepromSizeFor(ps) == IF ps \in {32, 128} THEN 4 ELSE 512
PageAddrs(ps) == {0, 1, (ps \div 2) - 1, 65535}
SmallLens == 0..MaxSmallLen
FlashLens(A) == SmallLens \cup (IF A = 0 THEN {34, 40, 130, 256, 300} ELSE {})
EepromLens(A) == SmallLens \cup (IF A = 0 THEN {34, 40, 70, 256} ELSE {})

ProgFrames(A) ==
    {ProgPageFrame(L, 70, 0, <<CRC_EOP>>) : L \in FlashLens(A)}
    \cup {ProgPageFrame(L, 69, 0, <<CRC_EOP>>) : L \in EepromLens(A)}
    \cup {ProgPageFrame(2, mt, 0, BadTerm) : mt \in {69, 70}}
    \cup {ProgPageFrame(2, 88, 0, <<CRC_EOP>>)}
    \cup (IF A = 0 THEN {ProgPageFrame(256, 70, 1, <<CRC_EOP>>),
                         ProgPageFrame(300, 70, 2, <<CRC_EOP>>)} ELSE {})

ReadFrames(L) ==
    {ReadPageFrame(L, mt, <<CRC_EOP>>) : mt \in {69, 70, 88}}
    \cup {ReadPageFrame(L, 70, BadTerm)}

NoMemo == [A |-> 0, prog |-> NoFrame]

\* a "long" session: set-address, then a flash read-page of a short length
\* or of one of the two longest
LongLens == SmallLens \cup {65534, 65535}

\* a "leave" session: two frames that bring the session to some state
\* (programming mode or not, error flag set or not, an address, parameters),
\* then leave-programming twice
LeaveFrame == Fr(81, <<>>, <<>>, <<CRC_EOP>>)
LeaveSetupFrames ==
    {Fr(80, <<>>, <<>>, t) : t \in Terms}
    \cup {SetAddrFrame(4660, <<CRC_EOP>>), SetParamsFrame(64, 512, <<CRC_EOP>>),
          EopFrame, Fr(81, <<>>, <<>>, BadTerm)}

\* a "resync" session: one frame, whole or cut short by the line (bytes
\* lost from its end, or a parameter byte lost so that what follows moves
\* up), which leaves the decoder waiting for a command, in the middle of a
\* command's parameters or payload, or inside a handler; then sign-on
\* frames without end
SignonFrame == Fr(48, <<>>, <<>>, <<CRC_EOP>>)
CutFrames ==
    {Fr(116, par, <<>>, <<>>) : par \in {<<>>, <<255>>, <<255, 255>>, <<255, 255, 70>>,
                                        <<0, 2, 69>>}}
    \cup {ReadPageFrame(L, 70, t) : L \in {2, 65535}, t \in Terms}
    \cup {Fr(100, par, <<>>, <<>>) : par \in {<<>>, <<0>>, <<0, 4>>}}
    \cup {Fr(66, par, <<>>, <<>>) : par \in {<<>>, <<1, 2, 3>>, <<1, 2, 3, 4>>}}
    \cup {Fr(85, par, <<>>, <<>>) : par \in {<<>>, <<5>>, <<5, 0>>}}
    \cup {Fr(48, <<>>, <<>>, <<>>), UnknownFrame(<<>>), UnknownFrame(BadTerm), EopFrame}

Menu ==
    CASE plan = "basic" -> IF stage < MaxBasicFrames THEN BasicFrames ELSE {}
      [] plan = "noisy" -> NoisyFrames
      [] plan = "leave" -> IF stage < 2 THEN LeaveSetupFrames
                           ELSE IF stage < 4 THEN {LeaveFrame} ELSE {}
      [] plan = "long" ->
            CASE stage = 0 -> {SetAddrFrame(A, <<CRC_EOP>>) : A \in {0, 65535}}
              [] stage = 1 -> {ReadPageFrame(L, 70, t) : L \in LongLens, t \in Terms}
              [] OTHER -> {}
      [] plan = "resync" -> IF stage = 0 THEN CutFrames ELSE {SignonFrame}
      [] plan = "page" ->
            CASE stage = 0 ->
                    {SetParamsFrame(tgt.pagesize, EepromSizeFor(tgt.pagesize),
                                    <<CRC_EOP>>)}
              [] stage = 1 -> {SetAddrFrame(A, <<CRC_EOP>>) : A \in PageAddrs(tgt.pagesize)}
              [] stage = 2 -> ProgFrames(memo.A)
              [] stage = 3 -> {SetAddrFrame(memo.A, <<CRC_EOP>>)}
              [] stage = 4 -> ReadFrames(FrameLen(memo.prog))
              [] OTHER -> {}

Session == [pc |-> pc, error |-> _error, programming |-> _programming,
            address |-> _address, param |-> _param, hw |-> hw]

Init ==
    /\ rev \in {1, 2}
    /\ plan \in {"basic", "noisy", "page", "leave"}
    \* a right-to-left build reads a declared length byte-swapped (1 as 256,
    \* 130 as 33280): the page sessions are explored for left-to-right builds
    /\ order \in (IF rev = 1 /\ plan # "page" THEN {"lr", "rl"} ELSE {"lr"})
    /\ _error = 0
    /\ _programming = FALSE
    /\ _address = 0
    /\ _param = ZeroParam
    /\ _buff = ZeroBuff
    /\ pc = "avrisp"
    /\ loc = NoLoc
    /\ hw = [reset |-> "INPUT", spiOn |-> FALSE]
    /\ inq = <<>>
    /\ out = <<>>
    /\ spi = <<>>
    /\ pins = <<>>
    /\ \E ps \in (IF plan = "page" THEN PageSizes ELSE {128}) :
            tgt = [pagesize |-> ps, flash |-> NoCells, pagebuf |-> NoCells]
    /\ stage = 0
    /\ sent = NoFrame
    /\ pre = [pc |-> "avrisp", error |-> 0, programming |-> FALSE, address |-> 0,
              param |-> ZeroParam, hw |-> [reset |-> "INPUT", spiOn |-> FALSE]]
    /\ memo = NoMemo

\* The host sends its next frame once the decoder has taken every byte of
\* the frame before (it has the answer, or has given up waiting for one).
HostSend ==
    /\ inq = <<>>
    /\ \E f \in Menu :
        /\ inq' = FrameBytes(f)
        /\ sent' = f
        /\ memo' = IF plan # "page" THEN memo
                   ELSE IF stage = 1 THEN [memo EXCEPT !.A = makeWord(f.par[2], f.par[1])]
                   ELSE IF stage = 2 THEN [memo EXCEPT !.prog = f]
                   ELSE memo
    /\ stage' = IF plan = "noisy" \/ (plan = "resync" /\ stage = 1) THEN stage
                 ELSE stage + 1
    /\ pre' = Session
    /\ out' = <<>>
    /\ spi' = <<>>
    /\ pins' = <<>>
    /\ UNCHANGED <<build, _error, _programming, _address, _param, _buff, pc, loc,
                   hw, tgt>>

\* ---- the decoder ----
\* getch() at call site `site` returns Head(inq)
Getch(site) == pc = site /\ inq # <<>> /\ inq' = Tail(inq)
ch == Head(inq)

\* back in avrisp(), which loop() calls again for the next byte
Return == pc' = "avrisp" /\ loc' = NoLoc
Goto(site, l) == pc' = site /\ loc' = l

\* fill(n) is entered: n is a uint8_t, and fill(0) reads nothing, so the
\* decoder goes on to the getch() that follows the call
CallFill(n, cont, after, l) ==
    IF U8(n) = 0 THEN Goto(after, l)
    ELSE Goto("fill", [l EXCEPT !.n = U8(n), !.x = 0, !.cont = cont])

\* setParameters(): the record read from _buff.  flash_size is the 32-bit
\* big-endian sum of its four bytes, kept as those bytes, most significant
\* first (no code reads it).
setParameters(b) ==
    [signature |-> b[1], revision |-> b[2], progtype |-> b[3], parmode |-> b[4],
     polling |-> b[5], selftimed |-> b[6], lock_bytes |-> b[7],
     fuse_bytes |-> b[8], flash_poll |-> b[9],
     eeprom_poll |-> makeWord(b[11], b[12]),
     flash_pagesize |-> makeWord(b[13], b[14]),
     eeprom_size |-> makeWord(b[15], b[16]),
     flash_size |-> <<b[17], b[18], b[19], b[20]>>]

\* a getPage that takes the page size for a count of words, not of bytes
getPage_asWords(ps, addr) == BitAnd(addr, Not16(U16(ps - 1)))

\* getPage(addr) for the page size ps
getPage(ps, addr) ==
    IF rev = 1 THEN BitAnd(addr, Not16(U16((ps \div 2) - 1)))
    ELSE CASE ps = 32 -> BitAnd(addr, 65520)
           [] ps = 64 -> BitAnd(addr, 65504)
           [] ps = 128 -> BitAnd(addr, 65472)
           [] ps = 256 -> BitAnd(addr, 65408)
           [] OTHER -> addr

\* replyVersion(c): the byte reply() sends
VersionByte(c) ==
    CASE c = 128 -> HARDWARE_VERSION
      [] c = 129 -> FIRMWARE_MAJOR_VERSION
      [] c = 130 -> FIRMWARE_MINOR_VERSION
      [] c = 147 -> 83
      [] OTHER -> 0

\* "AVR ISP"
IdString == <<65, 86, 82, 32, 73, 83, 80>>

\* a 16-bit value read as two getch() calls, b1 received first.  rev 1
\* writes both calls in one expression, whose operands the build may
\* evaluate in either order; rev 2 reads them in two statements.
\* hiFirst: the source names the high byte first, (getch() << 8) | getch()
TwoBytes(b1, b2, hiFirst) ==
    IF rev = 2 \/ order = "lr"
    THEN (IF hiFirst THEN makeWord(b1, b2) ELSE makeWord(b2, b1))
    ELSE (IF hiFirst THEN makeWord(b2, b1) ELSE makeWord(b1, b2))

\* ---- loops over the buffer and the target ----
\* A loop is its state s (the variables it changes and reads), its
\* condition and its body.  s.loop names the loop.

\* rev 1 writeFlash: for (p = _buff, word_length = length >> 1, i = 0;
\*                        i < word_length; i++), all three uint8_t
WriteFlashWordsBody(s) ==
    [s EXCEPT !.io = spiTransfer3(spiTransfer3(s.io, 64, s.i, s.b[2 * s.i + 1]),
                                  72, s.i, s.b[2 * s.i + 2]),
              !.i = U8(s.i + 1)]

\* rev 1 writeEeprom: for (i = length, addr = address << 1; i--;)
\*                        spiTransfer(0xC0, addr++, *p++)
WriteEepromBytesBody(s) ==
    [s EXCEPT !.io = spiTransfer3(s.io, 192, s.addr, s.b[s.p + 1]),
              !.addr = U16(s.addr + 1), !.p = s.p + 1, !.i = s.i - 1]

\* rev 2 writeEepromChunk: for (x = 0; x < length; x++) at addr = start + x
WriteChunkBytesBody(s) ==
    [s EXCEPT !.io = spiTransfer3(s.io, 192, U16(s.start + s.x), s.b[s.x + 1]),
              !.x = s.x + 1]

\* a loop body that commits the page left behind only after it has loaded
\* the first word of the next page
WriteFlashPagesBody_lateCommit(s) ==
    LET crossed == s.page # getPage(s.ps, s.address)
        x1 == U16(s.x + 1)
        io1 == spiTransfer3(s.io, 64, s.address, BuffAt(s.b, s.x))
        io2 == spiTransfer3(io1, 72, s.address, BuffAt(s.b, x1))
        io3 == IF crossed THEN spiTransfer3(io2, 76, s.page, 0) ELSE io2
    IN  [s EXCEPT !.io = io3, !.address = U16(s.address + 1), !.x = U16(x1 + 1),
                  !.page = IF crossed THEN getPage(s.ps, s.address) ELSE s.page]

\* rev 2 writeFlashPages: while (x < length)
WriteFlashPagesBody(s) ==
    LET crossed == s.page # getPage(s.ps, s.address)
        io0 == IF crossed THEN spiTransfer3(s.io, 76, s.page, 0) ELSE s.io
        x1 == U16(s.x + 1)
        io1 == spiTransfer3(io0, 64, s.address, BuffAt(s.b, s.x))
        io2 == spiTransfer3(io1, 72, s.address, BuffAt(s.b, x1))
    IN  [s EXCEPT !.io = io2, !.address = U16(s.address + 1), !.x = U16(x1 + 1),
                  !.page = IF crossed THEN getPage(s.ps, s.address) ELSE s.page]

\* readFlashPage: for (x = 0; x < length; x += 2)
ReadFlashBody(s) ==
    LET io1 == Write(spiTransfer3(s.io, 32, s.address, 0),
                     spiResult3(s.io, 32, s.address, 0))
        io2 == Write(spiTransfer3(io1, 40, s.address, 0),
                     spiResult3(io1, 40, s.address, 0))
    IN  [s EXCEPT !.io = io2, !.address = U16(s.address + 1), !.x = U16(s.x + 2)]

\* readEepromPage: for (x = 0; x < length; x++) at addr = start + x
ReadEepromBody(s) ==
    [s EXCEPT !.io = Write(spiTransfer3(s.io, 160, U16(s.start + s.x), 255),
                           spiResult3(s.io, 160, U16(s.start + s.x), 255)),
              !.x = s.x + 1]

LoopCond(s) ==
    CASE s.loop = "writeFlashWords" -> s.i < s.word_length
      [] s.loop = "writeEepromBytes" -> s.i # 0
      [] OTHER -> s.x < s.length

LoopBody(s) ==
    CASE s.loop = "writeFlashWords" -> WriteFlashWordsBody(s)
      [] s.loop = "writeEepromBytes" -> WriteEepromBytesBody(s)
      [] s.loop = "writeChunkBytes" -> WriteChunkBytesBody(s)
      [] s.loop = "writeFlashPages" -> WriteFlashPagesBody(s)
      [] s.loop = "readFlash" -> ReadFlashBody(s)
      [] s.loop = "readEeprom" -> ReadEepromBody(s)

\* at most `turns` turns of the loop: the first half of them, then, if the
\* loop has not ended, the rest
RECURSIVE Turns(_, _)
Turns(s, turns) ==
    IF turns <= 1
    THEN (IF turns = 1 /\ LoopCond(s) THEN LoopBody(s) ELSE s)
    ELSE LET half == Turns(s, turns \div 2)
         IN  IF LoopCond(half) THEN Turns(half, turns - (turns \div 2)) ELSE half

\* the loop run to its end: no loop here takes more turns than the count
\* it runs to, as long as its counter does not wrap
RunLoop(s, count) == Turns(s, count)

WriteFlashWords(io, b, word_length) ==
    RunLoop([loop |-> "writeFlashWords", io |-> io, b |-> b, i |-> 0,
             word_length |-> word_length], word_length).io

WriteEepromBytes(io, b, addr, length) ==
    RunLoop([loop |-> "writeEepromBytes", io |-> io, b |-> b, p |-> 0,
             addr |-> addr, i |-> length], length).io

WriteChunkBytes(io, b, start, length) ==
    RunLoop([loop |-> "writeChunkBytes", io |-> io, b |-> b, start |-> start,
             x |-> 0, length |-> length], length).io

\* writeFlashPages(length): the loop, then the commit of the last page
writeFlashPages(io, b, ps, address, length) ==
    LET s == RunLoop([loop |-> "writeFlashPages", io |-> io, b |-> b, ps |-> ps,
                      address |-> address, x |-> 0,
                      page |-> getPage(ps, address), length |-> length], length)
    IN  [s EXCEPT !.io = spiTransfer3(s.io, 76, s.page, 0)]

readFlashPage(io, address, length) ==
    RunLoop([loop |-> "readFlash", io |-> io, address |-> address, x |-> 0,
             length |-> length], length)

\* here again we have a word address
readEepromPage(io, address, length) ==
    RunLoop([loop |-> "readEeprom", io |-> io, start |-> U16(address * 2),
             x |-> 0, length |-> length], length).io

\* ---- avrisp(): the switch on the command byte ----
session == <<_error, _programming, _address, _param, _buff>>
wires == <<out, spi, tgt>>

\* case '0': _error = 0; reply();
CmdSignon ==
    /\ Getch("avrisp") /\ ch = 48
    /\ _error' = 0
    /\ Goto("reply", [NoLoc EXCEPT !.cmd = ch])
    /\ UNCHANGED <<build, host, _programming, _address, _param, _buff, hw, wires, pins>>

\* case '1': the terminator is read next
CmdIdentify ==
    /\ Getch("avrisp") /\ ch = 49
    /\ Goto("identify", [NoLoc EXCEPT !.cmd = ch])
    /\ UNCHANGED <<build, host, session, hw, wires, pins>>

\* case 'A': replyVersion(getch())
CmdGetParameter ==
    /\ Getch("avrisp") /\ ch = 65
    /\ Goto("replyVersion", [NoLoc EXCEPT !.cmd = ch])
    /\ UNCHANGED <<build, host, session, hw, wires, pins>>

\* case 'B': fill(20); ...
CmdSetParameters ==
    /\ Getch("avrisp") /\ ch = 66
    /\ CallFill(20, "setParameters", "reply", [NoLoc EXCEPT !.cmd = ch])
    /\ UNCHANGED <<build, host, session, hw, wires, pins>>

\* case 'E': fill(5); ...
CmdExtParameters ==
    /\ Getch("avrisp") /\ ch = 69
    /\ CallFill(5, "reply", "reply", [NoLoc EXCEPT !.cmd = ch])
    /\ UNCHANGED <<build, host, session, hw, wires, pins>>

\* beginProgramming(): SPI.begin(), the RESET pulses, the enable transaction
beginProgramming(io) == spiTransfer(io, 172, 83, 0, 0)

\* a case 'P' that calls beginProgramming() whatever _programming is
CmdEnterProgramming_always ==
    /\ Getch("avrisp") /\ ch = 80
    /\ hw' = [reset |-> "LOW", spiOn |-> TRUE]
    /\ pins' = pins \o <<"HIGH", "LOW", "HIGH", "LOW">>
    /\ SetIO(beginProgramming(IO))
    /\ _programming' = TRUE
    /\ Goto("reply", [NoLoc EXCEPT !.cmd = ch])
    /\ UNCHANGED <<build, host, _error, _address, _param, _buff>>

\* case 'P': _programming ? pulse(LED_ERROR, 3) : beginProgramming(); reply();
CmdEnterProgramming ==
    /\ Getch("avrisp") /\ ch = 80
    /\ IF _programming
       THEN UNCHANGED <<_programming, hw, wires, pins>>
       ELSE /\ hw' = [reset |-> "LOW", spiOn |-> TRUE]
            /\ pins' = pins \o <<"HIGH", "LOW", "HIGH", "LOW">>
            /\ SetIO(beginProgramming(IO))
            /\ _programming' = TRUE
    /\ Goto("reply", [NoLoc EXCEPT !.cmd = ch])
    /\ UNCHANGED <<build, host, _error, _address, _param, _buff>>

\* case 'U': the two address bytes are read next
CmdSetAddress ==
    /\ Getch("avrisp") /\ ch = 85
    /\ Goto("address1", [NoLoc EXCEPT !.cmd = ch])
    /\ UNCHANGED <<build, host, session, hw, wires, pins>>

\* case 0x60: getch(); getch(); reply();
CmdProgFlash ==
    /\ Getch("avrisp") /\ ch = 96
    /\ Goto("discard", [NoLoc EXCEPT !.cmd = ch, !.n = 2])
    /\ UNCHANGED <<build, host, session, hw, wires, pins>>

\* case 0x61: getch(); reply();
CmdProgData ==
    /\ Getch("avrisp") /\ ch = 97
    /\ Goto("discard", [NoLoc EXCEPT !.cmd = ch, !.n = 1])
    /\ UNCHANGED <<build, host, session, hw, wires, pins>>

\* case 0x64: programPage()
CmdProgPage ==
    /\ Getch("avrisp") /\ ch = 100
    /\ Goto("length1", [NoLoc EXCEPT !.cmd = ch])
    /\ UNCHANGED <<build, host, session, hw, wires, pins>>

\* case 0x74: readPage()
CmdReadPage ==
    /\ Getch("avrisp") /\ ch = 116
    /\ Goto("length1", [NoLoc EXCEPT !.cmd = ch])
    /\ UNCHANGED <<build, host, session, hw, wires, pins>>

\* case 'V': universal(): fill(4); ...
CmdUniversal ==
    /\ Getch("avrisp") /\ ch = 86
    /\ CallFill(4, "universal", "reply", [NoLoc EXCEPT !.cmd = ch])
    /\ UNCHANGED <<build, host, session, hw, wires, pins>>

\* a case 'Q' whose endProgramming() flips _programming
CmdLeaveProgramming_toggle ==
    /\ Getch("avrisp") /\ ch = 81
    /\ _error' = 0
    /\ hw' = [reset |-> "INPUT", spiOn |-> FALSE]
    /\ pins' = Append(pins, "HIGH")
    /\ _programming' = ~_programming
    /\ Goto("reply", [NoLoc EXCEPT !.cmd = ch])
    /\ UNCHANGED <<build, host, _address, _param, _buff, wires>>

\* case 'Q': _error = 0; endProgramming(); reply();
CmdLeaveProgramming ==
    /\ Getch("avrisp") /\ ch = 81
    /\ _error' = 0
    /\ hw' = [reset |-> "INPUT", spiOn |-> FALSE]
    /\ pins' = Append(pins, "HIGH")
    /\ _programming' = FALSE
    /\ Goto("reply", [NoLoc EXCEPT !.cmd = ch])
    /\ UNCHANGED <<build, host, _address, _param, _buff, wires>>

\* case 0x75: readSignature()
CmdReadSign ==
    /\ Getch("avrisp") /\ ch = 117
    /\ Goto("readSignature", [NoLoc EXCEPT !.cmd = ch])
    /\ UNCHANGED <<build, host, session, hw, wires, pins>>

\* case CRC_EOP: the error flag is set and STK_NOSYNC written
CmdEop ==
    /\ Getch("avrisp") /\ ch = CRC_EOP
    /\ _error' = ErrorSet(_error)
    /\ out' = Append(out, STK_NOSYNC)
    /\ Return
    /\ UNCHANGED <<build, host, _programming, _address, _param, _buff, hw, spi, tgt, pins>>

\* default: the error flag is set, then the terminator is read
CmdUnknown ==
    /\ Getch("avrisp") /\ ch \notin Opcodes
    /\ _error' = ErrorSet(_error)
    /\ Goto("unknown", [NoLoc EXCEPT !.cmd = ch])
    /\ UNCHANGED <<build, host, _programming, _address, _param, _buff, hw, wires, pins>>

\* ---- the getch() calls inside the handlers ----
\* reply(has_byte, val, send_ok): loc.val is <<val>>, or <<>> with no byte
Reply ==
    /\ Getch("reply")
    /\ IF ch = CRC_EOP
       THEN /\ out' = (out \o <<STK_INSYNC>>) \o loc.val \o <<STK_OK>>
            /\ UNCHANGED _error
       ELSE /\ _error' = ErrorSet(_error)
            /\ out' = Append(out, STK_NOSYNC)
    /\ Return
    /\ UNCHANGED <<build, host, _programming, _address, _param, _buff, hw, spi, tgt, pins>>

\* case '1' after the command byte
Identify ==
    /\ Getch("identify")
    /\ IF ch = CRC_EOP
       THEN /\ out' = (out \o <<STK_INSYNC>>) \o IdString \o <<STK_OK>>
            /\ UNCHANGED _error
       ELSE /\ _error' = ErrorSet(_error)
            /\ out' = Append(out, STK_NOSYNC)
    /\ Return
    /\ UNCHANGED <<build, host, _programming, _address, _param, _buff, hw, spi, tgt, pins>>

\* replyVersion(getch()) up to the getch() of reply()
ReplyVersion ==
    /\ Getch("replyVersion")
    /\ Goto("reply", [loc EXCEPT !.val = <<VersionByte(ch)>>])
    /\ UNCHANGED <<build, host, session, hw, wires, pins>>

\* fill(n): _buff[x] = getch(), and more bytes to come
Fill ==
    /\ Getch("fill")
    /\ loc.x + 1 < loc.n
    /\ _buff' = [_buff EXCEPT ![loc.x + 1] = ch]
    /\ Goto("fill", [loc EXCEPT !.x = @ + 1])
    /\ UNCHANGED <<build, host, _error, _programming, _address, _param, hw, wires, pins>>

\* the last byte of fill(n), where nothing but a getch() follows the call
FillDone ==
    /\ Getch("fill")
    /\ loc.x + 1 = loc.n
    /\ loc.cont \in {"reply", "writeFlash", "writeEeprom"}
    /\ _buff' = [_buff EXCEPT ![loc.x + 1] = ch]
    /\ Goto(loc.cont, [loc EXCEPT !.x = @ + 1])
    /\ UNCHANGED <<build, host, _error, _programming, _address, _param, hw, wires, pins>>

\* case 'B': the last byte of fill(20), then setParameters()
SetParameters ==
    /\ Getch("fill")
    /\ loc.x + 1 = loc.n
    /\ loc.cont = "setParameters"
    /\ _buff' = [_buff EXCEPT ![loc.x + 1] = ch]
    /\ _param' = setParameters(_buff')
    /\ Goto("reply", [loc EXCEPT !.x = @ + 1])
    /\ UNCHANGED <<build, host, _error, _programming, _address, hw, wires, pins>>

\* universal(): the last byte of fill(4), then the transaction, whose
\* answer reply() sends
Universal ==
    /\ Getch("fill")
    /\ loc.x + 1 = loc.n
    /\ loc.cont = "universal"
    /\ _buff' = [_buff EXCEPT ![loc.x + 1] = ch]
    /\ LET b == _buff'
       IN  /\ SetIO(spiTransfer(IO, b[1], b[2], b[3], b[4]))
           /\ Goto("reply", [loc EXCEPT !.x = @ + 1,
                                        !.val = <<spiResult(IO, b[1], b[2], b[3], b[4])>>])
    /\ UNCHANGED <<build, host, _error, _programming, _address, _param, hw, pins>>

\* case 'U', first byte.  rev 2: _address = getch();
SetAddress1 ==
    /\ Getch("address1")
    /\ _address' = IF rev = 2 THEN ch ELSE _address
    /\ Goto("address2", [loc EXCEPT !.b1 = ch])
    /\ UNCHANGED <<build, host, _error, _programming, _param, _buff, hw, wires, pins>>

\* case 'U', second byte.  rev 1: address = getch() | (getch() << 8);
\* rev 2: _address += 256 * getch();
SetAddress2 ==
    /\ Getch("address2")
    /\ _address' = IF rev = 2 THEN U16(_address + 256 * ch)
                   ELSE TwoBytes(loc.b1, ch, FALSE)
    /\ Goto("reply", loc)
    /\ UNCHANGED <<build, host, _error, _programming, _param, _buff, hw, wires, pins>>

\* cases 0x60 and 0x61 with no reply(): the answer follows the last
\* parameter byte
Discard_noTerminator ==
    /\ Getch("discard")
    /\ IF loc.n > 1
       THEN Goto("discard", [loc EXCEPT !.n = @ - 1]) /\ UNCHANGED out
       ELSE Return /\ out' = out \o <<STK_INSYNC, STK_OK>>
    /\ UNCHANGED <<build, host, session, hw, spi, tgt, pins>>

\* cases 0x60 and 0x61: a getch() whose byte is dropped
Discard ==
    /\ Getch("discard")
    /\ IF loc.n > 1 THEN Goto("discard", [loc EXCEPT !.n = @ - 1])
       ELSE Goto("reply", [loc EXCEPT !.n = 0])
    /\ UNCHANGED <<build, host, session, hw, wires, pins>>

\* programPage() and readPage(): the first byte of the length
Length1 ==
    /\ Getch("length1")
    /\ Goto("length2", [loc EXCEPT !.b1 = ch])
    /\ UNCHANGED <<build, host, session, hw, wires, pins>>

\* the second byte.  rev 1: length = (getch() << 8) | getch();
\* rev 2: length = 256 * getch(); length += getch();
Length2 ==
    /\ Getch("length2")
    /\ Goto("memtype", [loc EXCEPT !.length = TwoBytes(loc.b1, ch, TRUE)])
    /\ UNCHANGED <<build, host, session, hw, wires, pins>>

\* receiveEop() of rev 1 and the inline terminator tests of rev 2, when
\* the byte is not CRC_EOP: the error flag is set and STK_NOSYNC written
NoSync ==
    /\ _error' = ErrorSet(_error)
    /\ out' = Append(out, STK_NOSYNC)
    /\ UNCHANGED <<spi, tgt>>

\* rev 1 writeFlash/writeEeprom: the declared length is refused
Refused(length, size) == length > size \/ length > BUFF_LENGTH

\* programPage(): the memory type byte, then writeFlash() or writeEeprom()
\* up to their first getch()
ProgramPage ==
    /\ Getch("memtype")
    /\ loc.cmd = 100
    /\ LET l == [loc EXCEPT !.memtype = ch]
           length == loc.length
           failed == /\ out' = Append(out, STK_FAILED)
                     /\ Return
                     /\ UNCHANGED <<spi, tgt>>
       IN  CASE ch = 70 ->
                  IF rev = 1 /\ Refused(length, _param.flash_pagesize)
                  THEN _error' = 1 /\ failed
                  ELSE /\ CallFill(length, "writeFlash", "writeFlash", l)
                       /\ UNCHANGED <<_error, wires>>
             [] ch = 69 ->
                  IF rev = 1
                  THEN IF Refused(length, _param.eeprom_size)
                       THEN _error' = 1 /\ failed
                       ELSE /\ CallFill(length, "writeEeprom", "writeEeprom", l)
                            /\ UNCHANGED <<_error, wires>>
                  ELSE IF length > _param.eeprom_size
                       THEN /\ _error' = ErrorSet(_error)
                            /\ Goto("writeEeprom", [l EXCEPT !.result = STK_FAILED])
                            /\ UNCHANGED wires
                       ELSE /\ CallFill(IF length > EECHUNK THEN EECHUNK ELSE length,
                                        "writeEepromChunk", "writeEeprom",
                                        [l EXCEPT !.start = U16(_address * 2),
                                                  !.remaining = length,
                                                  !.result = STK_OK])
                            /\ UNCHANGED <<_error, wires>>
             [] OTHER -> failed /\ UNCHANGED _error
    /\ UNCHANGED <<build, host, _programming, _address, _param, _buff, hw, pins>>

\* rev 2 writeEepromChunk(start, length): the last byte of its fill(), its
\* writes, and writeEeprom() up to the next getch()
WriteEepromChunk ==
    /\ Getch("fill")
    /\ loc.x + 1 = loc.n
    /\ loc.cont = "writeEepromChunk"
    /\ _buff' = [_buff EXCEPT ![loc.x + 1] = ch]
    /\ SetIO(WriteChunkBytes(IO, _buff', loc.start, loc.n))
    /\ IF loc.remaining > EECHUNK
       THEN LET left == loc.remaining - EECHUNK
            IN  CallFill(IF left > EECHUNK THEN EECHUNK ELSE left,
                         "writeEepromChunk", "writeEeprom",
                         [loc EXCEPT !.start = U16(@ + EECHUNK), !.remaining = left])
       ELSE Goto("writeEeprom", [loc EXCEPT !.x = @ + 1])
    /\ UNCHANGED <<build, host, _error, _programming, _address, _param, hw, pins>>

\* writeFlash(): the terminator, then the loads and commits
WriteFlash ==
    /\ Getch("writeFlash")
    /\ IF ch # CRC_EOP THEN NoSync /\ UNCHANGED _address
       ELSE LET io1 == Write(IO, STK_INSYNC)
            IN  IF rev = 1
                THEN /\ SetIO(Write(spiTransfer3(
                                WriteFlashWords(io1, _buff, U8(loc.length \div 2)),
                                76, getPage(_param.flash_pagesize, _address), 0),
                              STK_OK))
                     /\ UNCHANGED <<_error, _address>>
                ELSE LET s == writeFlashPages(io1, _buff, _param.flash_pagesize,
                                              _address, loc.length)
                     IN  /\ SetIO(Write(s.io, STK_OK))
                         /\ _address' = s.address
                         /\ UNCHANGED _error
    /\ Return
    /\ UNCHANGED <<build, host, _programming, _param, _buff, hw, pins>>

\* the terminator of an EEPROM program-page: receiveEop() in writeEeprom()
\* of rev 1, the getch() after writeEeprom() in programPage() of rev 2
WriteEeprom ==
    /\ Getch("writeEeprom")
    /\ IF ch # CRC_EOP THEN NoSync
       ELSE /\ IF rev = 1
               THEN SetIO(Write(WriteEepromBytes(Write(IO, STK_INSYNC), _buff,
                                                 U16(_address * 2), loc.length),
                                STK_OK))
               ELSE SetIO(Write(Write(IO, STK_INSYNC), loc.result))
            /\ UNCHANGED _error
    /\ Return
    /\ UNCHANGED <<build, host, _programming, _address, _param, _buff, hw, pins>>

\* readPage(): the memory type byte
ReadPageMemtype ==
    /\ Getch("memtype")
    /\ loc.cmd = 116
    /\ Goto("readPage", [loc EXCEPT !.memtype = ch])
    /\ UNCHANGED <<build, host, session, hw, wires, pins>>

\* readPage(): the terminator, then the page
ReadPage ==
    /\ Getch("readPage")
    /\ IF ch # CRC_EOP THEN NoSync /\ UNCHANGED _address
       ELSE LET io1 == Write(IO, STK_INSYNC)
            IN  CASE loc.memtype = 70 ->
                       LET s == readFlashPage(io1, _address, loc.length)
                       IN  /\ SetIO(Write(s.io, STK_OK))
                           /\ _address' = IF rev = 2 THEN s.address ELSE _address
                           /\ UNCHANGED _error
                  [] loc.memtype = 69 ->
                       /\ SetIO(Write(readEepromPage(io1, _address, loc.length), STK_OK))
                       /\ UNCHANGED <<_error, _address>>
                  [] OTHER ->
                       /\ SetIO(Write(io1, STK_FAILED))
                       /\ UNCHANGED <<_error, _address>>
    /\ Return
    /\ UNCHANGED <<build, host, _programming, _param, _buff, hw, pins>>

\* the three signature bytes
SignatureBytes(io, k) ==
    Write(spiTransfer(io, 48, 0, k, 0), spiResult(io, 48, 0, k, 0))

\* readSignature(): the terminator, then the signature
ReadSignature ==
    /\ Getch("readSignature")
    /\ IF ch # CRC_EOP THEN NoSync
       ELSE /\ SetIO(Write(SignatureBytes(SignatureBytes(SignatureBytes(
                        Write(IO, STK_INSYNC), 0), 1), 2), STK_OK))
            /\ UNCHANGED _error
    /\ Return
    /\ UNCHANGED <<build, host, _programming, _address, _param, _buff, hw, pins>>

\* default: after _error is set.  rev 1: if (receiveEop()) write STK_UNKNOWN;
\* rev 2: STK_UNKNOWN or STK_NOSYNC, and no STK_INSYNC
Unknown ==
    /\ Getch("unknown")
    /\ out' = IF ch = CRC_EOP
              THEN (IF rev = 1 THEN out \o <<STK_INSYNC, STK_UNKNOWN>>
                    ELSE Append(out, STK_UNKNOWN))
              ELSE Append(out, STK_NOSYNC)
    /\ Return
    /\ UNCHANGED <<build, host, session, hw, spi, tgt, pins>>

Next ==
    \/ HostSend
    \/ CmdSignon \/ CmdIdentify \/ CmdGetParameter \/ CmdSetParameters
    \/ CmdExtParameters \/ CmdEnterProgramming \/ CmdSetAddress
    \/ CmdProgFlash \/ CmdProgData \/ CmdProgPage \/ CmdReadPage
    \/ CmdUniversal \/ CmdLeaveProgramming \/ CmdReadSign \/ CmdEop
    \/ CmdUnknown
    \/ Reply \/ Identify \/ ReplyVersion \/ Fill \/ FillDone \/ SetParameters
    \/ Universal \/ SetAddress1 \/ SetAddress2 \/ Discard \/ Length1 \/ Length2
    \/ ProgramPage \/ WriteEepromChunk \/ WriteFlash \/ WriteEeprom
    \/ ReadPageMemtype \/ ReadPage \/ ReadSignature \/ Unknown

Spec == Init /\ [][Next]_vars

\* ======================= properties of the decoder =======================

\* the frame in `sent' was sent while the decoder waited for a command
SentInSync == sent # NoFrame /\ pre.pc = "avrisp"

\* the decoder has taken every byte of the frame and waits for a command
Consumed == inq = <<>> /\ pc = "avrisp"

IsProgPage(f, mt) == f.op = 100 /\ FrameMem(f) = mt
IsReadPage(f, mt) == f.op = 116 /\ FrameMem(f) = mt

\* C1: the response to every well-formed frame begins with STK_INSYNC and
\* ends with one status byte, in both revisions.
C1_ResponseFramed ==
    (SentInSync /\ WellFormed(sent) /\ Consumed)
        => /\ Len(out) >= 2
           /\ out[1] = STK_INSYNC
           /\ Last(out) \in StatusBytes

\* C2: a frame whose terminator position holds another byte is answered with
\* exactly STK_NOSYNC, and the address register, the device parameters and
\* the programming-mode state are what they were before the frame.
C2_NoSyncNoEffect ==
    (SentInSync /\ sent.term = BadTerm /\ Consumed)
        => /\ out = <<STK_NOSYNC>>
           /\ _address = pre.address
           /\ _param = pre.param
           /\ _programming = pre.programming


\* ---- the SPI log of one frame, read as loads and commits ----
IsCommit(t) == t[1] = 76
IsLoad(t) == t[1] \in {64, 72}
IsLoadLow(t) == t[1] = 64
Addr(t) == makeWord(t[2], t[3])
AddrsOf(log) == [i \in 1..Len(log) |-> Addr(log[i])]
Commits(log) == AddrsOf(SelectSeq(log, IsCommit))
LowLoads(log) == AddrsOf(SelectSeq(log, IsLoadLow))

\* the page of word address w when a page holds ps bytes, ps \div 2 words
WordPage(ps, w) == w - (w % (ps \div 2))
\* the words a payload of L bytes is written to, from word address A on
Words(L) == (L + 1) \div 2
WordAt(A, j) == U16(A + j)
\* the words whose page is not the page of the word before
Crossings(ps, A, L) ==
    {j \in 1..(Words(L) - 1) :
        WordPage(ps, WordAt(A, j)) # WordPage(ps, WordAt(A, j - 1))}
PagesTouched(ps, A, L) == {WordPage(ps, WordAt(A, j)) : j \in 0..(Words(L) - 1)}
Nth(S, i) == CHOOSE x \in S : Cardinality({y \in S : y < x}) = i - 1
\* the pages in the order the words reach them, the page of A first
PagesInOrder(ps, A, L) ==
    LET starts == {0} \cup Crossings(ps, A, L)
    IN  [i \in 1..Cardinality(starts) |-> WordPage(ps, WordAt(A, Nth(starts, i)))]

Ascending(c) == \A i \in 1..(Len(c) - 1) : c[i] < c[i + 1]

\* every load is followed by a commit, and the first commit after it is
\* the commit of its page
LoadsThenCommit(log, ps) ==
    \A i \in 1..Len(log) :
        IsLoad(log[i]) =>
            LET later == {j \in (i + 1)..Len(log) : IsCommit(log[j])}
            IN  /\ later # {}
                /\ Addr(log[CHOOSE j \in later : \A m \in later : j <= m])
                        = WordPage(ps, Addr(log[i]))

\* rev 2 has answered a flash program-page frame: writeFlashPages has run
FlashPagesWritten ==
    /\ rev = 2 /\ plan = "page" /\ SentInSync
    /\ IsProgPage(sent, 70)
    /\ pre.param.flash_pagesize \in PageSizes
    /\ out = <<STK_INSYNC, STK_OK>>

Example130 ==
    /\ plan = "page" /\ SentInSync /\ WellFormed(sent)
    /\ IsProgPage(sent, 70) /\ FrameLen(sent) = 130
    /\ pre.param.flash_pagesize = 64 /\ pre.address = 0
    /\ Consumed

RoundTripDone ==
    /\ plan = "page" /\ stage = 5
    /\ IsProgPage(memo.prog, 70) /\ WellFormed(memo.prog)
    /\ IsReadPage(sent, 70) /\ WellFormed(sent)
    /\ Consumed

\* a length the flash program-page is to accept: no more than a page, no
\* more than the buffer
AcceptedLength(L) == L <= _param.flash_pagesize /\ L <= BUFF_LENGTH

\* C4: against a perfect target, for every word address A and every
\* accepted length L, set-address A, program-page 'F' with L payload bytes,
\* set-address A, read-page 'F' of length L returns exactly the L payload
\* bytes, in both revisions.
C4_RoundTrip ==
    (RoundTripDone /\ AcceptedLength(FrameLen(memo.prog)))
        => out = <<STK_INSYNC>> \o memo.prog.pay \o <<STK_OK>>


\* the flash program-page frame in `sent' declares more than a page, and
\* the decoder has taken its opcode, length and memory type
OverlongFlashHeaderRead ==
    /\ plan = "page" /\ SentInSync
    /\ IsProgPage(sent, 70)
    /\ FrameLen(sent) > pre.param.flash_pagesize
    /\ Len(inq) <= Len(sent.pay) + Len(sent.term)

\* C5: a flash program-page that declares more than the negotiated page
\* size is answered with STK_FAILED at once: the error flag is set, no
\* payload byte is read by the handler, and no load (0x40/0x48) or commit
\* (0x4C) is transferred, in both revisions.
C5_OverlongFlashRefused ==
    OverlongFlashHeaderRead =>
        /\ out # <<>> /\ out[1] = STK_FAILED
        /\ _error # 0
        /\ Len(inq) = Len(sent.pay) + Len(sent.term) => pc = "avrisp"
        /\ \A i \in 1..Len(spi) : ~IsLoad(spi[i]) /\ ~IsCommit(spi[i])

\* C6: once set, the error flag stays set, whatever the decoder does, until
\* it takes the sign-on command '0' or the leave-programming command 'Q'.
C6_ErrorSticky ==
    [][(_error # 0 /\ ~(pc = "avrisp" /\ inq # <<>> /\ Head(inq) \in {48, 81}))
            => _error' # 0]_vars

\* C7: an opcode the decoder does not know is answered with status
\* STK_UNKNOWN when CRC_EOP follows it, and otherwise with exactly
\* STK_NOSYNC and the error flag set; either way the two bytes are all the
\* decoder takes, and it waits for a command again.
C7_UnknownOpcode ==
    (SentInSync /\ sent.op = UnknownFrame(<<>>).op /\ inq = <<>>)
        => /\ pc = "avrisp"
           /\ IF WellFormed(sent)
              THEN out # <<>> /\ Last(out) = STK_UNKNOWN
              ELSE out = <<STK_NOSYNC>> /\ _error # 0

\* C9: whenever the decoder writes STK_NOSYNC it takes no further byte for
\* that command and waits for a command again; and a CRC_EOP where a
\* command is expected gives exactly STK_NOSYNC, sets the error flag, takes
\* no other byte and changes nothing else of the session.
C9_NoSyncResynchronises ==
    /\ [][(Len(out') = Len(out) + 1 /\ Last(out') = STK_NOSYNC)
            => pc' = "avrisp"]_vars
    /\ []((SentInSync /\ sent = EopFrame /\ inq = <<>>)
            => /\ pc = "avrisp"
               /\ out = <<STK_NOSYNC>>
               /\ _error # 0
               /\ _address = pre.address
               /\ _param = pre.param
               /\ _programming = pre.programming
               /\ hw = pre.hw)

\* the EEPROM program-page frame f declares more than the EEPROM size
\* negotiated in par
OverlongEeprom(f, par) ==
    IsProgPage(f, 69) /\ WellFormed(f) /\ FrameLen(f) > par.eeprom_size

\* C10: an EEPROM program-page that declares more than the negotiated
\* EEPROM size is answered with STK_FAILED, sets the error flag, transfers
\* no write-EEPROM-byte (0xC0), and leaves the decoder in sync: the next
\* well-formed frame gets its own STK_INSYNC, in both revisions.
C10_OverlongEepromRefused ==
    /\ (plan = "page" /\ stage = 3 /\ SentInSync
            /\ OverlongEeprom(sent, pre.param) /\ inq = <<>>)
        => /\ pc = "avrisp"
           /\ out # <<>> /\ Last(out) = STK_FAILED
           /\ \A i \in 1..Len(out) : out[i] # STK_NOSYNC
           /\ _error # 0
           /\ \A i \in 1..Len(spi) : spi[i][1] # 192
    /\ (plan = "page" /\ stage = 4 /\ WellFormed(sent)
            /\ OverlongEeprom(memo.prog, _param) /\ inq = <<>>)
        => out # <<>> /\ out[1] = STK_INSYNC

\* a well-formed enter-programming frame, taken to its end
EnterProgrammingDone ==
    SentInSync /\ sent = Fr(80, <<>>, <<>>, <<CRC_EOP>>) /\ Consumed

\* C11: 'P' with a valid terminator while _programming is true transfers
\* nothing over SPI, does not touch the reset line, leaves _programming,
\* the address, the parameters and the error flag as they were, and is
\* answered STK_INSYNC STK_OK; while _programming is false it transfers
\* 0xAC 0x53 0x00 0x00 exactly once and sets _programming.
C11_EnterProgramming ==
    EnterProgrammingDone =>
        /\ out = <<STK_INSYNC, STK_OK>>
        /\ _programming
        /\ IF pre.programming
           THEN /\ spi = <<>> /\ pins = <<>> /\ hw = pre.hw
                /\ _address = pre.address
                /\ _param = pre.param
                /\ _error = pre.error
           ELSE spi = <<<<172, 83, 0, 0>>>>

\* 'P' has been answered in a session that was in programming mode already
C11_EnteredTwice == EnterProgrammingDone /\ pre.programming

\* C12: leave-programming is idempotent: a well-formed 'Q' is answered
\* STK_INSYNC STK_OK and leaves _programming false, the error flag clear and
\* the address and the parameters as they were; a second 'Q' right after it
\* is answered the same and leaves the session as the first one left it.
C12_LeaveIdempotent ==
    (SentInSync /\ sent = LeaveFrame /\ Consumed) =>
        /\ out = <<STK_INSYNC, STK_OK>>
        /\ ~_programming /\ _error = 0
        /\ _address = pre.address /\ _param = pre.param
        /\ (plan = "leave" /\ stage = 4) => Session = pre

\* the second 'Q' has been answered, in a session that had set an address
C12_LeftTwice ==
    /\ plan = "leave" /\ stage = 4 /\ SentInSync /\ sent = LeaveFrame /\ Consumed
    /\ _address = 4660

\* a legacy load-byte frame, 0x60 with two parameter bytes or 0x61 with one
LegacySent == SentInSync /\ sent.op \in {96, 97}
\* the decoder has taken the opcode and the parameters, and no byte more
LegacyParamsRead == LegacySent /\ Len(inq) = Len(sent.term)

\* C13, as the spec states it: after 0x60 and its 2 parameter bytes, or
\* 0x61 and its 1 parameter byte, the decoder replies without reading any
\* further byte, and waits for a command.
C13_NoTerminatorRead == LegacyParamsRead => (out # <<>> /\ pc = "avrisp")

\* C13, amended: after the parameters the decoder has written nothing and
\* reads one more byte, in reply(): when that byte is CRC_EOP the answer is
\* STK_INSYNC STK_OK, otherwise it is STK_NOSYNC and the error flag is set
\* (rev 2: incremented); only then does the decoder wait for a command.
\* Nothing else of the session changes and nothing goes over SPI.
C13_TerminatorRead ==
    LegacySent =>
        /\ LegacyParamsRead => (out = <<>> /\ pc = "reply")
        /\ inq = <<>> =>
              /\ pc = "avrisp"
              /\ IF WellFormed(sent)
                 THEN out = <<STK_INSYNC, STK_OK>> /\ _error = pre.error
                 ELSE out = <<STK_NOSYNC>> /\ _error = ErrorSet(pre.error)
              /\ _address = pre.address /\ _param = pre.param
              /\ _programming = pre.programming
              /\ spi = <<>>

\* a well-formed 0x60 frame has been answered
C13_LegacyAnswered ==
    LegacySent /\ sent.op = 96 /\ WellFormed(sent) /\ Consumed /\ out = <<STK_INSYNC, STK_OK>>

\* C14: once a set-device-parameters command has stored its block, the
\* stored flash page size is one of 32, 64, 128 and 256, whatever bytes 12
\* and 13 of the block were.
C14_PageSizeValid == _param # ZeroParam => _param.flash_pagesize \in PageSizes

\* C15: in a flash program-page whose declared length L is accepted
\* (L <= page size <= 256, L = 256 included) the handler reads exactly the
\* L payload bytes into the buffer before it reads the terminator: the byte
\* it tests against CRC_EOP is the (L+1)-th byte after the memory type.
C15_TerminatorAfterPayload ==
    (/\ plan = "page" /\ SentInSync /\ IsProgPage(sent, 70)
     /\ FrameLen(sent) <= pre.param.flash_pagesize
     /\ FrameLen(sent) <= BUFF_LENGTH
     /\ Len(inq) <= Len(sent.pay) + Len(sent.term)
     /\ pc = "writeFlash")
        => /\ Len(inq) = Len(sent.term)
           /\ \A i \in 1..Len(sent.pay) : _buff[i] = sent.pay[i]

\* C16: a command whose terminator position holds another byte transfers
\* nothing over SPI: for 'V', 'P', read-signature, read-page and
\* program-page, every SPI transaction of the command comes after its
\* terminator has been read and found to be CRC_EOP.
C16_NoSpiWithoutTerminator ==
    (SentInSync /\ sent.term = BadTerm /\ sent.op \in {86, 80, 117, 116, 100})
        => spi = <<>>

\* an accepted flash program-page frame has been written and answered
FlashPageAccepted ==
    /\ plan = "page" /\ SentInSync /\ WellFormed(sent)
    /\ IsProgPage(sent, 70)
    /\ FrameLen(sent) <= pre.param.flash_pagesize
    /\ FrameLen(sent) <= BUFF_LENGTH
    /\ Consumed
    /\ out = <<STK_INSYNC, STK_OK>>

\* C17: an accepted flash program-page at word address A with payload b
\* loads, for every word j < L/2 in increasing j, the low byte b[2j] (0x40)
\* and then the high byte b[2j+1] (0x48), both at word address A+j mod
\* 2^16, and leaves the session address at A plus the number of words
\* written, in both revisions.
C17_LoadsAtAddress ==
    FlashPageAccepted =>
        LET A == pre.address
            b == sent.pay
            loads == SelectSeq(spi, IsLoad)
        IN  /\ Len(loads) >= 2 * (FrameLen(sent) \div 2)
            /\ \A j \in 0..((FrameLen(sent) \div 2) - 1) :
                  /\ loads[2 * j + 1] = <<64, highByte(WordAt(A, j)),
                                          lowByte(WordAt(A, j)), b[2 * j + 1]>>
                  /\ loads[2 * j + 2] = <<72, highByte(WordAt(A, j)),
                                          lowByte(WordAt(A, j)), b[2 * j + 2]>>
            /\ _address = U16(A + (Len(loads) \div 2))

\* the write-EEPROM-byte transactions of payload b from word address A on
EepromWrites(A, b) ==
    [i \in 1..Len(b) |->
        <<192, highByte(U16(2 * A + i - 1)), lowByte(U16(2 * A + i - 1)), b[i]>>]

\* a well-formed EEPROM program-page frame of a length the revision
\* accepts, with every byte of it taken
EepromPageAccepted ==
    /\ plan = "page" /\ SentInSync /\ WellFormed(sent)
    /\ IsProgPage(sent, 69)
    /\ FrameLen(sent) <= pre.param.eeprom_size
    /\ rev = 1 => FrameLen(sent) <= BUFF_LENGTH
    /\ inq = <<>>

\* C18: chunking cannot be seen: for every word address A and every
\* accepted length L the chunked write of rev 2 takes exactly the L payload
\* bytes and transfers exactly (0xC0, 2A+i mod 2^16, payload[i]) for
\* i = 0..L-1 in order, and the unchunked write of rev 1 takes the same
\* bytes, transfers the same sequence and gives the same answer.
C18_ChunkingInvisible ==
    EepromPageAccepted =>
        /\ pc = "avrisp"
        /\ out = <<STK_INSYNC, STK_OK>>
        /\ spi = EepromWrites(pre.address, sent.pay)

\* ---- the flash read loop, turn by turn ----
\* The sessions of Spec run every loop to its end within the step that
\* enters it.  SpecLive follows readFlashPage() through its turns, in "long"
\* sessions.  The logs keep the first MaxLog entries of what the loop writes
\* and transfers: up to there a step is one turn of the loop; from there on
\* a turn changes nothing but x and the address (the target is only read),
\* and a step is up to Burst turns.
Capped(log) == IF Len(log) > MaxLog THEN SubSeq(log, 1, MaxLog) ELSE log

InitLive ==
    /\ rev \in {1, 2}
    /\ plan = "long"
    /\ order = "lr"
    /\ _error = 0
    /\ _programming = FALSE
    /\ _address = 0
    /\ _param = ZeroParam
    /\ _buff = ZeroBuff
    /\ pc = "avrisp"
    /\ loc = NoLoc
    /\ hw = [reset |-> "INPUT", spiOn |-> FALSE]
    /\ inq = <<>>
    /\ out = <<>>
    /\ spi = <<>>
    /\ pins = <<>>
    /\ tgt = [pagesize |-> 128, flash |-> NoCells, pagebuf |-> NoCells]
    /\ stage = 0
    /\ sent = NoFrame
    /\ pre = [pc |-> "avrisp", error |-> 0, programming |-> FALSE, address |-> 0,
              param |-> ZeroParam, hw |-> [reset |-> "INPUT", spiOn |-> FALSE]]
    /\ memo = NoMemo

\* readPage(): the terminator, then into the loop of readFlashPage(); rev 1
\* hands the loop a copy of the address
ReadPageLive ==
    /\ Getch("readPage")
    /\ loc.memtype = 70
    /\ IF ch # CRC_EOP THEN NoSync /\ Return
       ELSE /\ SetIO(Write(IO, STK_INSYNC))
            /\ Goto("readFlashPage", [loc EXCEPT !.x = 0, !.address = _address])
            /\ UNCHANGED _error
    /\ UNCHANGED <<build, host, _programming, _address, _param, _buff, hw, pins>>

\* the address the loop reads at: _address in rev 2, its parameter in rev 1
LoopAddress == IF rev = 2 THEN _address ELSE loc.address

\* for (x = 0; x < length; x += 2): one turn of the loop
ReadFlashTurn ==
    /\ pc = "readFlashPage"
    /\ loc.x < loc.length
    /\ Len(spi) < MaxLog
    /\ LET s == ReadFlashBody([loop |-> "readFlash", io |-> IO, address |-> LoopAddress,
                               x |-> loc.x, length |-> loc.length])
       IN  /\ out' = Capped(s.io.out) /\ spi' = Capped(s.io.spi) /\ tgt' = s.io.tgt
           /\ _address' = IF rev = 2 THEN s.address ELSE _address
           /\ loc' = [loc EXCEPT !.x = s.x, !.address = s.address]
    /\ UNCHANGED <<build, host, pc, inq, _error, _programming, _param, _buff, hw, pins>>

\* the turns the loop takes from x on before x < length fails or x wraps,
\* Burst of them at most
TurnsAhead(x, length) ==
    LET toEnd == (length - x + 1) \div 2
        toWrap == (65536 - x + 1) \div 2
        least == IF toEnd < toWrap THEN toEnd ELSE toWrap
    IN  IF least < Burst THEN least ELSE Burst

\* the next turns of the loop, the logs being full
ReadFlashTurns ==
    /\ pc = "readFlashPage"
    /\ loc.x < loc.length
    /\ Len(spi) >= MaxLog
    /\ LET k == TurnsAhead(loc.x, loc.length)
       IN  /\ _address' = IF rev = 2 THEN U16(_address + k) ELSE _address
           /\ loc' = [loc EXCEPT !.x = U16(@ + 2 * k), !.address = U16(@ + k)]
    /\ UNCHANGED <<build, host, pc, inq, _error, _programming, _param, _buff, hw,
                   pins, wires>>

\* the loop has ended: the status byte, and back to avrisp()
ReadFlashDone ==
    /\ pc = "readFlashPage"
    /\ ~(loc.x < loc.length)
    /\ out' = Append(out, STK_OK)
    /\ Return
    /\ UNCHANGED <<build, host, inq, session, hw, spi, tgt, pins>>

NextLive ==
    \/ HostSend
    \/ CmdSetAddress \/ SetAddress1 \/ SetAddress2 \/ Reply
    \/ CmdReadPage \/ Length1 \/ Length2 \/ ReadPageMemtype
    \/ ReadPageLive \/ ReadFlashTurn \/ ReadFlashTurns \/ ReadFlashDone

\* the decoder keeps running: a step that can be taken is taken
SpecLive == InitLive /\ [][NextLive]_vars /\ WF_vars(NextLive)

\* C19: every command terminates: whatever the declared length, a handler
\* that has entered its loop transfers and writes finitely often and the
\* decoder waits for a command again.
C19_Terminates == (pc = "readFlashPage") ~> (pc = "avrisp")

\* every byte loaded into the target's page buffer for the frame was read
\* from _buff at an index inside the buffer
LoadsFromBuffer ==
    \A i \in 1..Len(spi) : IsLoad(spi[i]) => spi[i][4] # Indeterminate

\* C20: every index used to read or write the 256-byte buffer _buff is in
\* 0..255, for every declared program-page length and every negotiated
\* page size, the loop of writeFlashPages in rev 2 included.
C20_BuffIndexInRange ==
    (plan = "page" /\ IsProgPage(sent, 70) /\ Consumed) => LoadsFromBuffer

\* ---- resynchronisation ----
InitResync ==
    /\ rev \in {1, 2}
    /\ plan = "resync"
    /\ order \in (IF rev = 1 THEN {"lr", "rl"} ELSE {"lr"})
    /\ _error = 0
    /\ _programming = FALSE
    /\ _address = 0
    /\ _param = ZeroParam
    /\ _buff = ZeroBuff
    /\ pc = "avrisp"
    /\ loc = NoLoc
    /\ hw = [reset |-> "INPUT", spiOn |-> FALSE]
    /\ inq = <<>>
    /\ out = <<>>
    /\ spi = <<>>
    /\ pins = <<>>
    /\ tgt = [pagesize |-> 128, flash |-> NoCells, pagebuf |-> NoCells]
    /\ stage = 0
    /\ sent = NoFrame
    /\ pre = [pc |-> "avrisp", error |-> 0, programming |-> FALSE, address |-> 0,
              param |-> ZeroParam, hw |-> [reset |-> "INPUT", spiOn |-> FALSE]]
    /\ memo = NoMemo

\* readPage(): the terminator, for a memory type other than 'F'
ReadPageOther ==
    /\ loc.memtype # 70
    /\ ReadPage

\* the decoder on the sign-on, set-parameters, set-address, program-page
\* and read-page paths, the flash read loop followed turn by turn
NextResync ==
    \/ HostSend
    \/ CmdSignon \/ CmdSetParameters \/ CmdSetAddress \/ CmdProgPage
    \/ CmdReadPage \/ CmdEop \/ CmdUnknown
    \/ Reply \/ Fill \/ SetParameters \/ SetAddress1 \/ SetAddress2
    \/ Length1 \/ Length2 \/ ProgramPage \/ ReadPageMemtype \/ Unknown
    \/ ReadPageOther \/ ReadPageLive \/ ReadFlashTurn \/ ReadFlashTurns
    \/ ReadFlashDone

\* the decoder keeps running and the host keeps sending
SpecResync == InitResync /\ [][NextResync]_vars /\ WF_vars(NextResync)

\* a sign-on has been answered STK_INSYNC STK_OK, the decoder waits for a
\* command and the error flag is clear
SignonAnswered ==
    /\ sent = SignonFrame
    /\ Consumed
    /\ out = <<STK_INSYNC, STK_OK>>
    /\ _error = 0

\* C21: from any reachable decoder state, the middle of a command's
\* parameters or payload included, once the host sends nothing but sign-on
\* frames the decoder eventually answers one of them STK_INSYNC STK_OK and
\* waits for a command with the error flag clear.
C21_ResyncLive == (stage = 1) ~> SignonAnswered

\* a read-page frame with a valid terminator has been answered
ReadPageAnswered ==
    /\ plan = "page" /\ SentInSync
    /\ sent.op = 116 /\ sent.term = <<CRC_EOP>>
    /\ Consumed

\* STK_INSYNC, n data bytes, STK_OK
DataResponse(n) ==
    /\ Len(out) = n + 2
    /\ out[1] = STK_INSYNC
    /\ Last(out) = STK_OK

\* C22: a read-page frame with a valid terminator and declared length L is
\* answered STK_INSYNC, exactly L data bytes and STK_OK when its memory type
\* is 'F' or 'E', odd L included, and STK_INSYNC STK_FAILED with no SPI
\* transaction when it is neither.
C22_ReadPageResponse ==
    ReadPageAnswered
        => IF FrameMem(sent) \in {69, 70}
           THEN DataResponse(FrameLen(sent))
           ELSE out = <<STK_INSYNC, STK_FAILED>> /\ spi = <<>>

=============================================================================
